---- MODULE Spec2Model ----
(***************************************************************************)
(* vulntechfinder: the bounded concurrent job-dispatch engine of the       *)
(* `nuclei` and `httpx` sub-commands (src/cmd/nuclei.go, src/cmd/httpx.go). *)
(*                                                                         *)
(* Strings are sequences of one-character strings, so that the string      *)
(* functions of the code (TrimSpace, ToLower, SplitN, Split, Join, Fields,  *)
(* Contains, Replace, HasPrefix, HasSuffix) are computed, not assumed.      *)
(***************************************************************************)
EXTENDS Integers, Sequences, FiniteSets, Bags, TLC

(***************************************************************************)
(* Bounds of the model.                                                    *)
(***************************************************************************)
\* Records decoded from the stream in one run.
MaxRecords == 2
\* Records decoded in the runs that exercise the scheduler, one job each.
MaxJobs == 3
\* Lines one subprocess writes (stdout and stderr together) in the runs that
\* vary the output (InitIO).
MaxLines == 2
\* Capacity of one OS pipe, in lines.
PipeCap == 1

\* The default of --parallel, and the value a configured value <= 0 becomes.
DefaultParallel == 50

\* bufio.MaxScanTokenSize, the longest line a bufio.Scanner returns (64 KiB in
\* Go), scaled to the lines of the model.
MaxScanTokenSize == 10

(***************************************************************************)
(* Strings.                                                                *)
(***************************************************************************)
Range(s) == {s[i] : i \in 1..Len(s)}

Min(S) == CHOOSE x \in S : \A y \in S : x <= y
Max(S) == CHOOSE x \in S : \A y \in S : x >= y

\* unicode.IsSpace, on the characters the model uses.
IsSpace(c) == c \in {" ", "\t", "\n", "\r"}

\* unicode.ToLower, on the letters the model uses.
LowerChar(c) ==
  CASE c = "A" -> "a"
    [] c = "B" -> "b"
    [] c = "C" -> "c"
    [] c = "T" -> "t"
    [] c = "X" -> "x"
    [] OTHER -> c

\* strings.ToLower
ToLower(s) == [i \in 1..Len(s) |-> LowerChar(s[i])]

\* strings.TrimSpace
TrimSpace(s) ==
  LET keep == {i \in 1..Len(s) : ~IsSpace(s[i])}
  IN  IF keep = {} THEN <<>> ELSE SubSeq(s, Min(keep), Max(keep))

\* strings.HasPrefix, strings.HasSuffix
HasPrefix(s, p) == Len(s) >= Len(p) /\ SubSeq(s, 1, Len(p)) = p
HasSuffix(s, p) == Len(s) >= Len(p) /\ SubSeq(s, Len(s) - Len(p) + 1, Len(s)) = p

\* strings.Index: the first position of sub in s, 0 when there is none.
Index(s, sub) ==
  LET at == {i \in 1..(Len(s) - Len(sub) + 1) : SubSeq(s, i, i + Len(sub) - 1) = sub}
  IN  IF at = {} THEN 0 ELSE Min(at)

\* strings.Contains
Contains(s, sub) == Len(sub) = 0 \/ Index(s, sub) > 0

\* strings.Split(s, sep) for a non-empty sep: always at least one segment.
RECURSIVE Split(_, _)
Split(s, sep) ==
  LET i == Index(s, sep)
  IN  IF i = 0 THEN <<s>>
      ELSE <<SubSeq(s, 1, i - 1)>> \o Split(SubSeq(s, i + Len(sep), Len(s)), sep)

\* strings.SplitN(s, sep, 2): cut at the first sep only.
SplitN2(s, sep) ==
  LET i == Index(s, sep)
  IN  IF i = 0 THEN <<s>>
      ELSE <<SubSeq(s, 1, i - 1), SubSeq(s, i + Len(sep), Len(s))>>

\* strings.Join
RECURSIVE Join(_, _)
Join(ss, sep) ==
  IF Len(ss) = 0 THEN <<>>
  ELSE IF Len(ss) = 1 THEN ss[1]
  ELSE ss[1] \o sep \o Join(Tail(ss), sep)

\* strings.Replace(s, old, new, -1) for a non-empty old: every occurrence.
RECURSIVE ReplaceAll(_, _, _)
ReplaceAll(s, old, new) ==
  LET i == Index(s, old)
  IN  IF i = 0 THEN s
      ELSE SubSeq(s, 1, i - 1) \o new \o ReplaceAll(SubSeq(s, i + Len(old), Len(s)), old, new)

\* strings.Fields: the maximal runs of non-space characters, in order.
Fields(s) ==
  LET starts == {i \in 1..Len(s) : ~IsSpace(s[i]) /\ (i = 1 \/ IsSpace(s[i - 1]))}
      start(k) == CHOOSE i \in starts : Cardinality({j \in starts : j < i}) = k - 1
      end(b) == Min({e \in b..Len(s) : e = Len(s) \/ IsSpace(s[e + 1])})
  IN  [k \in 1..Cardinality(starts) |-> SubSeq(s, start(k), end(start(k)))]

\* contains / Httpxcontains: membership of an item in a slice.
contains(slice, item) == \E i \in 1..Len(slice) : slice[i] = item

(***************************************************************************)
(* String constants of the code and the inputs the model draws from.       *)
(***************************************************************************)
Placeholder == <<"{", "t", "e", "c", "h", "}">>
MarkTc == <<"-", "t", "c">>
MarkTags == <<"-", "t", "a", "g", "s">>
MarkPath == <<"-", "p", "a", "t", "h">>
DotTxt == <<".", "t", "x", "t">>
\* wordlistsDir := "/root/wordlists"
wordlistsDir ==
  <<"/", "r", "o", "o", "t", "/", "w", "o", "r", "d", "l", "i", "s", "t", "s">>

\* --cmd templates: "", "-tags {tech}", "-tc {tech}", "-path {tech}", "x {tech}".
TplEmpty == <<>>
TplTags == MarkTags \o <<" ">> \o Placeholder
TplTc == MarkTc \o <<" ">> \o Placeholder
TplPath == MarkPath \o <<" ">> \o Placeholder
TplPlain == <<"x", " ">> \o Placeholder
Templates == {TplEmpty, TplTags, TplTc, TplPath, TplPlain}

\* Raw technology tags: "Ab:1", "b", " a b " (a name with a space), ":1" (an
\* empty name), " C " (needs trimming).
TagAbV == <<"A", "b", ":", "1">>
TagB == <<"b">>
TagSpaced == <<" ", "a", " ", "b", " ">>
TagNoName == <<":", "1">>
TagC == <<" ", "C", " ">>

\* A decoded record: host, and the tech slice (nil for null or absent).
Rec(h, isNil, tags) == [host |-> h, nil |-> isNil, tech |-> tags]
SampleRecords ==
  { Rec("h1", FALSE, <<TagAbV, TagB>>),
    Rec("h2", TRUE, <<>>),
    Rec("h2", FALSE, <<>>),
    Rec("h2", FALSE, <<TagC, TagSpaced, TagB>>),
    Rec("h1", FALSE, <<TagSpaced, TagNoName>>) }

\* --include-tech / --exclude-tech values: "", "ab", " B ,c", "," and the
\* paths "e" (an empty file), "f" (a file of names), "u" (unreadable).
SpecNone == <<>>
SpecAb == <<"a", "b">>
SpecBc == <<" ", "B", " ", ",", "c">>
SpecComma == <<",">>
PathE == <<"e">>
PathF == <<"f">>
PathU == <<"u">>
TechSpecs == {SpecNone, SpecAb, SpecBc, SpecComma, PathE, PathF, PathU}

\* The files that exist: each with the lines it holds and whether it opens.
File(ls, ok) == [lines |-> ls, readable |-> ok]
FileSystem ==
  (PathE :> File(<<>>, TRUE)) @@
  (PathF :> File(<<<<" ", "A", "b", " ">>, <<>>, <<" ">>, <<"c">>>>, TRUE)) @@
  (PathU :> File(<<>>, FALSE)) @@
  (<<"b">> :> File(<<>>, TRUE)) @@
  ((wordlistsDir \o <<"/", "b">>) :> File(<<>>, TRUE)) @@
  ((wordlistsDir \o <<"/", "a", "b">>) :> File(<<>>, TRUE)) @@
  ((wordlistsDir \o <<"/", "a", "b", ".", "t", "x", "t">>) :> File(<<>>, TRUE)) @@
  ((wordlistsDir \o <<"/", "c", ".", "t", "x", "t">>) :> File(<<>>, TRUE))

\* stdin contents: "", " {" (JSON objects), "[" (a JSON array), "h" (hosts),
\* " " (whitespace only).
StdinEmpty == <<>>
StdinObjects == <<" ", "{">>
StdinArray == <<"[">>
StdinHosts == <<"h">>
StdinBlank == <<" ">>
Stdins == {StdinEmpty, StdinObjects, StdinArray, StdinHosts, StdinBlank}

\* Lines a subprocess writes: "[ [a [" and " [ [ [ x" (three leading
\* bracket tokens), "[ [" (two tokens), "[ x [" (second token plain).
LineQ == <<"[", " ", "[", "a", " ", "[">>
LineQ4 == <<" ", "[", " ", "[", " ", "[", " ", "x">>
LineTwo == <<"[", " ", "[">>
LinePlain == <<"[", " ", "x", " ", "[">>
LineSamples == {LineQ, LineQ4, LineTwo, LinePlain}

\* A line of MaxScanTokenSize characters.
LineLong == [i \in 1..MaxScanTokenSize |-> "a"]

(***************************************************************************)
(* The pure functions of the two sub-commands.                             *)
(***************************************************************************)
\* if parallel <= 0 { parallel = 50 }
EffectiveParallel(p) == IF p <= 0 THEN DefaultParallel ELSE p

\* The paths that exist in the run at hand.
VARIABLE envFiles

\* fileExists(path)
fileExists(path) == path # <<>> /\ path \in envFiles

\* What an existing path holds: a file of FileSystem, or an empty file.
FileAt(path) ==
  IF path \in DOMAIN FileSystem THEN FileSystem[path] ELSE File(<<>>, TRUE)

\* parseTechInput / HttpxparseTechInput: the error and the list.
parseTechInput(input) ==
  IF input = <<>> THEN [err |-> FALSE, list |-> <<>>]
  ELSE IF fileExists(input)
  THEN IF ~FileAt(input).readable THEN [err |-> TRUE, list |-> <<>>]
       ELSE LET trimmed == [i \in 1..Len(FileAt(input).lines) |->
                              TrimSpace(FileAt(input).lines[i])]
                NonEmpty(l) == l # <<>>
                kept == SelectSeq(trimmed, NonEmpty)
            IN  [err |-> FALSE, list |-> [i \in 1..Len(kept) |-> ToLower(kept[i])]]
  ELSE LET techs == Split(input, <<",">>)
       IN  [err |-> FALSE,
            list |-> [i \in 1..Len(techs) |-> TrimSpace(ToLower(techs[i]))]]

\* len(excludeList) > 0 && len(includeList) > 0
FilterConflict(excludeList_, includeList_) ==
  Len(excludeList_) > 0 /\ Len(includeList_) > 0

\* A test of the first byte of stdin as it is.
IsJSONUntrimmed(stdinBytes) ==
  HasPrefix(stdinBytes, <<"[">>) \/ HasPrefix(stdinBytes, <<"{">>)

\* strings.HasPrefix(trimmed, "[") || strings.HasPrefix(trimmed, "{")
IsJSON(stdinBytes) ==
  LET trimmed == TrimSpace(stdinBytes)
  IN  HasPrefix(trimmed, <<"[">>) \/ HasPrefix(trimmed, <<"{">>)

\* A nil check that never skips.
TechIsNilNever(r) == FALSE

\* techData.Tech == nil
TechIsNil(r) == r.nil

\* The part before the first ":" as it is.
TechNameUntrimmed(t) == SplitN2(t, <<":">>)[1]

\* strings.TrimSpace(strings.SplitN(t, ":", 2)[0])
TechName(t) == TrimSpace(SplitN2(t, <<":">>)[1])

\* Include/exclude logic that consults the exclude list only.
NucleiKeepExcludeOnly(t, inc, exc) ==
  /\ ~Contains(TechName(t), <<" ">>)
  /\ ~contains(exc, ToLower(TechName(t)))

\* nuclei: whether the goroutine appends the tag to techs.
NucleiKeep(t, inc, exc) ==
  /\ ~Contains(TechName(t), <<" ">>)
  /\ IF Len(inc) > 0 THEN contains(inc, ToLower(TechName(t)))
     ELSE ~contains(exc, ToLower(TechName(t)))

\* nuclei: techs, the trimmed names of the tags kept, in record order.
NucleiTechs(tech, inc, exc) ==
  LET Keep(t) == NucleiKeep(t, inc, exc)
      kept == SelectSeq(tech, Keep)
  IN  [i \in 1..Len(kept) |-> TechName(kept[i])]

\* A goroutine that runs the command even when no tag is left.
NucleiSkipNever(techs) == FALSE

\* nuclei: "Skip if techs is empty".
NucleiSkip(techs) == Len(techs) = 0

\* A command builder that renders the names as they are in techs.
NucleiCmdAsIs(tpl, techs) == ReplaceAll(tpl, Placeholder, Join(techs, <<",">>))

\* nuclei: the command string built from the template and techs.
NucleiCmd(tpl, techs) ==
  LET tech == ToLower(Join(techs, <<",">>))
      conditions == [i \in 1..Len(techs) |->
        <<"c", "o", "n", "t", "a", "i", "n", "s", "(", "t", "o", "_", "l", "o",
          "w", "e", "r", "(", "n", "a", "m", "e", ")", ",", "'">>
        \o ToLower(techs[i]) \o <<"'", ")">>]
  IN  IF Contains(tpl, MarkTc)
      THEN ReplaceAll(tpl, Placeholder,
                      <<"\"">> \o Join(conditions, <<" ", "|", "|", " ">>) \o <<"\"">>)
      ELSE ReplaceAll(tpl, Placeholder, tech)

\* httpx: whether a raw tag contributes a normalized name.
HttpxValid(t) == TechName(t) # <<>> /\ ~Contains(TechName(t), <<" ">>)

\* httpx: normalizedTechs.
HttpxNormalized(tech) ==
  LET kept == SelectSeq(tech, HttpxValid)
  IN  [i \in 1..Len(kept) |-> ToLower(TechName(kept[i]))]

\* A filter that keeps every name.
HttpxKeepAll(tech, inc, exc) == TRUE

\* httpx: whether a normalized name passes the include/exclude logic.
HttpxKeep(tech, inc, exc) ==
  IF Len(inc) > 0 THEN contains(inc, tech)
  ELSE IF Len(exc) > 0 THEN ~contains(exc, tech)
  ELSE TRUE

\* httpx: the names one job each is launched for, in order.
HttpxTechs(tech, inc, exc) ==
  LET Keep(t) == HttpxKeep(t, inc, exc)
  IN  SelectSeq(HttpxNormalized(tech), Keep)

\* filepath.Join(dir, name), for names without separators or dots-only parts.
PathJoin(dir, name) == IF name = <<>> THEN dir ELSE dir \o <<"/">> \o name

\* A resolution that prefers the wordlist directory to the name itself.
PathToUseWordlistFirst(techName) ==
  LET try1 == PathJoin(wordlistsDir, techName)
      try2 == IF ~HasSuffix(ToLower(try1), DotTxt) THEN try1 \o DotTxt ELSE try1
  IN  IF fileExists(try1) THEN try1
      ELSE IF fileExists(techName) THEN techName
      ELSE IF fileExists(try2) THEN try2
      ELSE techName

\* httpx: pathToUse for a name.
PathToUse(techName) ==
  LET try1 == PathJoin(wordlistsDir, techName)
      try2 == IF ~HasSuffix(ToLower(try1), DotTxt) THEN try1 \o DotTxt ELSE try1
  IN  IF fileExists(techName) THEN techName
      ELSE IF fileExists(try1) THEN try1
      ELSE IF fileExists(try2) THEN try2
      ELSE techName

\* httpx: the command string built from the template and one name.
HttpxCmd(tpl, techName) ==
  IF Contains(tpl, MarkPath)
  THEN ReplaceAll(tpl, Placeholder, PathToUse(techName))
  ELSE ReplaceAll(tpl, Placeholder, techName)

\* A check that looks at the first and the third token only.
QualifiesFirstAndThird(line) ==
  LET parts == Fields(line)
  IN  /\ Len(parts) >= 3
      /\ HasPrefix(parts[1], <<"[">>)
      /\ HasPrefix(parts[3], <<"[">>)

\* nuclei: the line "starts with three sets of square brackets".
Qualifies(line) ==
  LET parts == Fields(line)
  IN  /\ Len(parts) >= 3
      /\ HasPrefix(parts[1], <<"[">>)
      /\ HasPrefix(parts[2], <<"[">>)
      /\ HasPrefix(parts[3], <<"[">>)

(***************************************************************************)
(* State.                                                                  *)
(***************************************************************************)
VARIABLES
  sub,          \* the sub-command invoked: "nuclei" or "httpx"
  cmdStr,       \* --cmd
  parallelFlag, \* --parallel as given
  Output,       \* --output ("" when absent)
  excludeTech,  \* --exclude-tech
  includeTech,  \* --include-tech
  stdinBytes,   \* what standard input holds
  envRecords,   \* the records the stream of this run may hold
  envRecs,      \* how many records the stream of this run holds at most
  envLines,     \* the lines the scan subprocesses of this run may write
  envMax,       \* how many lines one scan subprocess writes at most
  envStatus,    \* the exit statuses the scan subprocesses of this run may have
  envCap,       \* how many of the lines of this run a pipe holds
  pc,           \* where Run is
  exitCode,     \* -1 while the process runs, then its exit code
  parallel,     \* parallel after the coercion; cap(semaphore)
  excludeList,
  includeList,
  stdinRead,    \* ioutil.ReadAll(os.Stdin) was called
  techxRuns,    \* how many times techx was spawned
  reader,       \* "none", "stdin" or "techx": what the decoder reads
  outputFile,   \* "none", "open" or "closed"
  opens,        \* how many times os.OpenFile was called
  records,      \* the records decoded so far
  todo,         \* the jobs of the current record still to submit
  wg,           \* the WaitGroup counter
  semaphore,    \* how many tokens the channel holds
  jobs,         \* the jobs, in wg.Add order
  stdout,       \* the lines echoed with fmt.Println, as a bag: line -> count
  file          \* the lines appended to the output file, as a bag

flags == <<sub, cmdStr, parallelFlag, Output, excludeTech, includeTech, stdinBytes,
           envRecords, envRecs, envLines, envMax, envStatus, envCap, envFiles>>
setup == <<parallel, excludeList, includeList, stdinRead, techxRuns, reader>>
sched == <<wg, semaphore, jobs>>
sinks == <<outputFile, opens, stdout, file>>
vars == <<flags, setup, sched, sinks, pc, exitCode, records, todo>>

\* A process whose goroutines go on after os.Exit.
RunningAlways == TRUE

\* The process has not exited: os.Exit and the return of Run end every
\* goroutine.
Running == pc # "exited"

\* os.Exit(code), or Run returning (code 0).
Exit(code) == pc' = "exited" /\ exitCode' = code

InitState ==
  /\ pc = "start" /\ exitCode = -1
  /\ parallel = parallelFlag
  /\ excludeList = <<>> /\ includeList = <<>>
  /\ stdinRead = FALSE /\ techxRuns = 0 /\ reader = "none"
  /\ outputFile = "none" /\ opens = 0
  /\ records = <<>> /\ todo = <<>>
  /\ wg = 0 /\ semaphore = 0 /\ jobs = <<>>
  /\ stdout = EmptyBag /\ file = EmptyBag

\* The runs whose inputs are drawn from the given sets, in the given
\* environment: the records and lines there are, the exit statuses of the
\* scan subprocesses, the lines a pipe holds, and the sets of paths that may
\* exist.
InitRun(subs, tpls, pars, outs, excs, incs, stdins, recset, nrecs, lineset, nlines, statuses, cap, filesets) ==
  /\ sub \in subs
  /\ cmdStr \in tpls
  /\ parallelFlag \in pars
  /\ Output \in outs
  /\ excludeTech \in excs
  /\ includeTech \in incs
  /\ stdinBytes \in stdins
  /\ envRecords = recset
  /\ envRecs = nrecs
  /\ envLines = lineset
  /\ envMax = nlines
  /\ envStatus = statuses
  /\ envCap = cap
  /\ envFiles \in filesets
  /\ InitState

\* The same where every scan subprocess exits with status 0, a pipe holds
\* PipeCap lines and the paths that exist are those of FileSystem.
InitWith(subs, tpls, pars, outs, excs, incs, stdins, recset, nrecs, lineset, nlines) ==
  InitRun(subs, tpls, pars, outs, excs, incs, stdins, recset, nrecs, lineset, nlines,
          {0}, PipeCap, {DOMAIN FileSystem})

\* Records of the input classes below.
RecTwo == Rec("h1", FALSE, <<TagAbV, TagB>>)
RecNil == Rec("h2", TRUE, <<>>)
RecOne == Rec("h2", FALSE, <<TagB>>)

\* The scheduler: both sub-commands under every kind of --parallel value, with
\* enough jobs to fill the slots; the subprocesses write nothing.
InitSched ==
  InitWith({"nuclei", "httpx"}, {TplTags}, {-1, 0, 1, 2}, {<<>>},
           {SpecNone}, {SpecNone}, {StdinObjects},
           {RecOne, RecNil}, MaxJobs, {}, 0)

\* Filtering and expansion: every sample record under the filters and the
\* templates, one job at a time; the subprocesses write nothing.
InitExpand ==
  InitWith({"nuclei", "httpx"}, {TplTags, TplPath}, {1}, {<<>>},
           {SpecNone, PathF}, {SpecNone, PathF}, {StdinObjects},
           SampleRecords, MaxRecords, {}, 0)

\* The command line and the input source: every flag value, a stream of at
\* most one record.
InitConfig ==
  InitWith({"nuclei", "httpx"}, Templates, {1}, {<<>>, <<"o">>},
           TechSpecs, TechSpecs, Stdins,
           {RecOne}, 1, {}, 0)

\* Output of one job: a subprocess that writes up to MaxLines lines of every
\* sample to its two pipes, with and without an output file.
InitOneJob ==
  InitWith({"nuclei", "httpx"}, {TplTags}, {1}, {<<>>, <<"o">>},
           {SpecNone}, {SpecNone}, {StdinObjects},
           {RecOne}, 1, LineSamples, MaxLines)

\* Output of two concurrent jobs (nuclei: two records; httpx: one record with
\* two tags) that write at most one line each to a shared output file; an
\* httpx job may write a line too long for the scanner, and the subprocesses
\* exit with status 0 or 1.
InitTwoJobs ==
  \/ InitRun({"nuclei"}, {TplTags}, {2}, {<<"o">>},
             {SpecNone}, {SpecNone}, {StdinObjects},
             {RecOne}, 2, {LineQ, LinePlain}, 1, {0, 1}, PipeCap, {DOMAIN FileSystem})
  \/ InitRun({"httpx"}, {TplTags}, {2}, {<<"o">>},
             {SpecNone}, {SpecNone}, {StdinObjects},
             {RecTwo}, 1, {LineQ, LinePlain, LineLong}, 1, {0, 1}, PipeCap, {DOMAIN FileSystem})

InitIO == InitOneJob \/ InitTwoJobs

\* Hosts: two records that differ in the host only, processed concurrently.
RecOneOther == Rec("h1", FALSE, <<TagB>>)

InitHosts ==
  InitWith({"nuclei", "httpx"}, {TplTags, TplPath}, {2}, {<<>>},
           {SpecNone}, {SpecNone}, {StdinObjects},
           {RecOne, RecOneOther}, 2, {}, 0)

\* Rendering: nuclei with a record of two tags under the expression template
\* and a template without marker.
InitRender ==
  InitWith({"nuclei"}, {TplTc, TplPlain}, {1}, {<<>>},
           {SpecNone}, {SpecNone}, {StdinObjects},
           {RecTwo}, 1, {}, 0)

\* Path resolution: httpx with the -path template, a record whose tag is "b"
\* or "b.txt", and every combination of the candidate paths existing.
TagBTxt == <<"b", ".", "t", "x", "t">>
PathCandidates ==
  { <<"b">>, wordlistsDir \o <<"/", "b">>, wordlistsDir \o <<"/", "b">> \o DotTxt,
    TagBTxt, wordlistsDir \o <<"/">> \o TagBTxt \o DotTxt }

InitPaths ==
  InitRun({"httpx"}, {TplPath}, {1}, {<<>>},
          {SpecNone}, {SpecNone}, {StdinObjects},
          {Rec("h1", FALSE, <<TagB>>), Rec("h1", FALSE, <<TagBTxt>>)}, 1, {}, 0,
          {0}, PipeCap, SUBSET PathCandidates)

\* Whitespace in names: a record with the tags "a<TAB>b" and " C ", whose
\* names hold a tab inside and spaces around.
TagTabbed == <<"a", "\t", "b">>

InitTabs ==
  InitWith({"nuclei", "httpx"}, {TplTags}, {1}, {<<>>},
           {SpecNone, PathF}, {SpecNone}, {StdinObjects},
           {Rec("h1", FALSE, <<TagTabbed, TagC>>)}, 1, {}, 0)

\* Line order: one job whose subprocess writes up to MaxLines lines, short
\* enough for a pipe to hold one more of them, with an output file.
InitOrder ==
  InitRun({"nuclei", "httpx"}, {TplTags}, {1}, {<<"o">>},
          {SpecNone}, {SpecNone}, {StdinObjects},
          {RecOne}, 1, {LineQ, LineQ4}, MaxLines, {0}, PipeCap + 1, {DOMAIN FileSystem})

\* Every input class.
Init ==
  InitSched \/ InitExpand \/ InitConfig \/ InitIO \/ InitHosts \/ InitRender \/ InitPaths
    \/ InitTabs \/ InitOrder

(***************************************************************************)
(* Run, up to the decode loop.                                             *)
(***************************************************************************)
\* Lines 45-80 (nuclei.go), 47-82 (httpx.go): the template, the coercion of
\* parallel, the two lists and their conflict.
Configure ==
  /\ pc = "start"
  /\ LET ex == parseTechInput(excludeTech)
         in == parseTechInput(includeTech)
     IN  IF cmdStr = <<>>
         THEN Exit(1) /\ UNCHANGED <<parallel, excludeList, includeList>>
         ELSE /\ parallel' = EffectiveParallel(parallelFlag)
              /\ IF ex.err
                 THEN Exit(1) /\ UNCHANGED <<excludeList, includeList>>
                 ELSE /\ excludeList' = ex.list
                      /\ IF in.err
                         THEN Exit(1) /\ UNCHANGED includeList
                         ELSE /\ includeList' = in.list
                              /\ IF FilterConflict(ex.list, in.list)
                                 THEN Exit(1)
                                 ELSE pc' = "read" /\ UNCHANGED exitCode
  /\ UNCHANGED <<flags, stdinRead, techxRuns, reader, sched, sinks, records, todo>>

\* A check of the read error only.
StdinUsableIfRead(readOk, bytes) == readOk

\* err == nil after ioutil.ReadAll, and len(stdinBytes) != 0.
StdinUsable(readOk, bytes) == readOk /\ Len(bytes) # 0

\* Lines 82-92: read all of stdin; a read error or no input ends the run.
ReadStdin ==
  /\ pc = "read"
  /\ stdinRead' = TRUE
  /\ \E readOk \in BOOLEAN :
       IF StdinUsable(readOk, stdinBytes)
       THEN pc' = "resolve" /\ UNCHANGED exitCode
       ELSE Exit(1)
  /\ UNCHANGED <<flags, parallel, excludeList, includeList, techxRuns, reader,
                 sched, sinks, records, todo>>

\* Lines 94-117: decode stdin itself, or what techx prints for it.
Resolve ==
  /\ pc = "resolve"
  /\ IF IsJSON(stdinBytes)
     THEN /\ reader' = "stdin" /\ pc' = "open"
          /\ UNCHANGED <<techxRuns, exitCode>>
     ELSE /\ techxRuns' = techxRuns + 1
          /\ \E techxOk \in BOOLEAN :
               IF techxOk
               THEN reader' = "techx" /\ pc' = "open" /\ UNCHANGED exitCode
               ELSE Exit(1) /\ UNCHANGED reader
  /\ UNCHANGED <<flags, parallel, excludeList, includeList, stdinRead,
                 sched, sinks, records, todo>>

\* A handle that is closed as soon as it is opened.
HandleAfterOpenClosed == "closed"

\* defer outputFile.Close(): the handle stays open until Run returns.
HandleAfterOpen == "open"

\* Lines 119-128: open the output file when --output is given.
OpenOutput ==
  /\ pc = "open"
  /\ IF Output # <<>>
     THEN /\ opens' = opens + 1
          /\ \E openOk \in BOOLEAN :
               IF openOk
               THEN outputFile' = HandleAfterOpen /\ pc' = "loop" /\ UNCHANGED exitCode
               ELSE Exit(1) /\ UNCHANGED outputFile
     ELSE pc' = "loop" /\ UNCHANGED <<opens, outputFile, exitCode>>
  /\ UNCHANGED <<flags, setup, sched, stdout, file, records, todo>>

(***************************************************************************)
(* The decode loop and the submission of jobs.                             *)
(***************************************************************************)
\* What one record makes the loop submit: nuclei one goroutine for the record
\* (its tags are filtered inside the goroutine), httpx one goroutine per name
\* that passes the filter.
Work(h, tags, name) == [host |-> h, tech |-> tags, techName |-> name]

NucleiWork(r) == <<Work(r.host, r.tech, <<>>)>>

\* An httpx that lets the template choose: one goroutine per kept tech only
\* when the template holds -path, one for the whole record otherwise.
HttpxWorkByTemplate(r) ==
  LET names == HttpxTechs(r.tech, includeList, excludeList)
  IN  IF Contains(cmdStr, MarkPath)
      THEN [i \in 1..Len(names) |-> Work(r.host, <<>>, names[i])]
      ELSE IF Len(names) = 0 THEN <<>>
      ELSE <<Work(r.host, <<>>, Join(names, <<",">>))>>

HttpxWork(r) ==
  LET names == HttpxTechs(r.tech, includeList, excludeList)
  IN  [i \in 1..Len(names) |-> Work(r.host, <<>>, names[i])]

Expand(r) == IF sub = "nuclei" THEN NucleiWork(r) ELSE HttpxWork(r)

\* A JSON array on stdin cannot be decoded into the record struct.
DecodeFails == reader = "stdin" /\ HasPrefix(TrimSpace(stdinBytes), <<"[">>)

\* Lines 134-149 (nuclei.go), 136-199 (httpx.go): decode the next value of the
\* stream: its end, a malformed value, or a record.
Decode ==
  /\ pc = "loop"
  /\ \/ /\ ~DecodeFails
        /\ pc' = "wait"
        /\ UNCHANGED <<exitCode, records, todo>>
     \/ /\ Exit(1)
        /\ UNCHANGED <<records, todo>>
     \/ /\ ~DecodeFails
        /\ Len(records) < envRecs
        /\ \E r \in envRecords :
             /\ records' = Append(records, r)
             /\ todo' = IF TechIsNil(r) THEN <<>> ELSE Expand(r)
             /\ pc' = IF todo' = <<>> THEN "loop" ELSE "submit"
        /\ UNCHANGED exitCode
  /\ UNCHANGED <<flags, setup, sched, sinks>>

NewJob(w) ==
  [ rec |-> Len(records), host |-> w.host, tech |-> w.tech, techName |-> w.techName,
    st |-> "queued", techs |-> <<>>, cmd |-> <<>>, launched |-> FALSE,
    stdin |-> "", proc |-> "none", want |-> "exit", nw |-> 0, status |-> 0,
    outBuf |-> <<>>, errBuf |-> <<>>, rd |-> "out", pend |-> <<>>,
    sent |-> <<>>, got |-> <<>>, kept |-> <<>> ]

\* wg.Add(1)
Add ==
  /\ pc = "submit"
  /\ wg' = wg + 1
  /\ jobs' = Append(jobs, NewJob(Head(todo)))
  /\ pc' = "acquire"
  /\ UNCHANGED <<flags, setup, sinks, semaphore, exitCode, records, todo>>

\* A send that proceeds on a full channel.
SlotFreeOffByOne == semaphore <= parallel

\* A send that never blocks.
SlotFreeAlways == TRUE

\* Whether a send on the semaphore channel can proceed.
SlotFree == semaphore < parallel

\* semaphore <- struct{}{} and the go statement.
Acquire ==
  /\ pc = "acquire"
  /\ SlotFree
  /\ semaphore' = semaphore + 1
  /\ jobs' = [jobs EXCEPT ![Len(jobs)].st = "spawned"]
  /\ todo' = Tail(todo)
  /\ pc' = IF Tail(todo) = <<>> THEN "loop" ELSE "submit"
  /\ UNCHANGED <<flags, setup, sinks, wg, exitCode, records>>

\* A Run that returns without waiting for the counter.
BarrierOpenNoWait == TRUE

\* Whether wg.Wait() returns.
BarrierOpen == wg = 0

\* wg.Wait(), the deferred outputFile.Close(), and the return of Run.
WaitReturn ==
  /\ pc = "wait"
  /\ BarrierOpen
  /\ outputFile' = IF outputFile = "open" THEN "closed" ELSE outputFile
  /\ Exit(0)
  /\ UNCHANGED <<flags, setup, sched, opens, stdout, file, records, todo>>

(***************************************************************************)
(* The goroutine of job j and its subprocess.                              *)
(***************************************************************************)
\* What the subprocess may do next after writing n lines.
Intents(n) == IF n < envMax THEN {"out", "err", "exit"} ELSE {"exit"}

\* A goroutine that reads the host from the variable of the decode loop.
HostOfLatest(j) == records[Len(records)].host

\* cmd.Stdin = strings.NewReader(host): the host the goroutine was given.
HostOf(j) == jobs[j].host

\* A goroutine that is gone after an error and runs no deferred call.
AfterErrorAbandon == "abandoned"

\* After a failed cmd.Start() or cmd.Wait() the error is at most logged and
\* the goroutine returns: its deferred calls run.
AfterError == "releasing"

\* nuclei.go 157-223, httpx.go 207-268: filter (nuclei), build the command,
\* start the subprocess.
JobBegin(j) ==
  /\ Running
  /\ jobs[j].st = "spawned"
  /\ LET techs == IF sub = "nuclei"
                  THEN NucleiTechs(jobs[j].tech, includeList, excludeList)
                  ELSE <<jobs[j].techName>>
         cmd == IF sub = "nuclei" THEN NucleiCmd(cmdStr, techs)
                ELSE HttpxCmd(cmdStr, jobs[j].techName)
     IN  IF sub = "nuclei" /\ NucleiSkip(techs)
         THEN jobs' = [jobs EXCEPT ![j].st = "releasing"]
         ELSE \E startOk \in BOOLEAN :
                IF startOk
                THEN \E w \in Intents(0) :
                       jobs' = [jobs EXCEPT ![j].techs = techs, ![j].cmd = cmd,
                                            ![j].stdin = HostOf(j),
                                            ![j].launched = TRUE, ![j].proc = "run",
                                            ![j].want = w, ![j].st = "draining"]
                ELSE jobs' = [jobs EXCEPT ![j].techs = techs, ![j].cmd = cmd,
                                          ![j].launched = TRUE, ![j].proc = "failed",
                                          ![j].st = AfterError]
  /\ UNCHANGED <<flags, setup, sinks, wg, semaphore, pc, exitCode, records, todo>>

\* A pipe that hands out the newest line first.
PipeWriteInFront(buf, line) == <<line>> \o buf

\* A write puts the line behind what the pipe holds: the read end, which
\* StdoutPipe and StderrPipe return, gives the bytes in the order written.
PipeWrite(buf, line) == Append(buf, line)

\* The subprocess writes one line to the pipe it has chosen; the write blocks
\* while that pipe is full.
ProcWrite(j) ==
  /\ Running
  /\ jobs[j].proc = "run"
  /\ jobs[j].want \in {"out", "err"}
  /\ Len(IF jobs[j].want = "out" THEN jobs[j].outBuf ELSE jobs[j].errBuf) < envCap
  /\ \E line \in envLines, w \in Intents(jobs[j].nw + 1) :
       jobs' = [jobs EXCEPT
         ![j].outBuf = IF jobs[j].want = "out" THEN PipeWrite(@, line) ELSE @,
         ![j].errBuf = IF jobs[j].want = "err" THEN PipeWrite(@, line) ELSE @,
         ![j].sent = Append(@, <<jobs[j].want, line>>),
         ![j].nw = @ + 1,
         ![j].want = w]
  /\ UNCHANGED <<flags, setup, sinks, wg, semaphore, pc, exitCode, records, todo>>

\* The subprocess exits with some status, which closes the write ends of both
\* pipes.
ProcExit(j) ==
  /\ Running
  /\ jobs[j].proc = "run"
  /\ jobs[j].want = "exit"
  /\ \E status \in envStatus :
       jobs' = [jobs EXCEPT ![j].proc = "exited", ![j].status = status]
  /\ UNCHANGED <<flags, setup, sinks, wg, semaphore, pc, exitCode, records, todo>>

\* Whether the line just read goes to the output file.
Persisted(line) ==
  Output # <<>> /\ (sub = "nuclei" => Qualifies(line))

\* bufio.Scanner: the line does not fit the buffer of MaxScanTokenSize bytes.
TooLong(line) == Len(line) >= MaxScanTokenSize

\* scanner.Scan() over io.MultiReader(stdoutPipe, stderrPipe) returns a line,
\* and fmt.Println(line).
JobScan(j) ==
  /\ Running
  /\ jobs[j].st = "draining"
  /\ LET buf == IF jobs[j].rd = "out" THEN jobs[j].outBuf ELSE jobs[j].errBuf
     IN  /\ buf # <<>>
         /\ ~TooLong(Head(buf))
         /\ jobs' = [jobs EXCEPT
              ![j].outBuf = IF jobs[j].rd = "out" THEN Tail(@) ELSE @,
              ![j].errBuf = IF jobs[j].rd = "err" THEN Tail(@) ELSE @,
              ![j].got = Append(@, <<jobs[j].rd, Head(buf)>>),
              ![j].pend = Head(buf),
              ![j].st = IF Persisted(Head(buf)) THEN "persist" ELSE "draining"]
         /\ stdout' = stdout (+) SetToBag({Head(buf)})
  /\ UNCHANGED <<flags, setup, outputFile, opens, file, wg, semaphore, pc, exitCode,
                 records, todo>>

\* scanner.Scan() meets a line that is too long: it takes the bytes, returns
\* false (bufio.ErrTooLong, which the code does not look at) and the loop
\* ends; the goroutine reads no more and goes on to cmd.Wait().
JobScanTooLong(j) ==
  /\ Running
  /\ jobs[j].st = "draining"
  /\ LET buf == IF jobs[j].rd = "out" THEN jobs[j].outBuf ELSE jobs[j].errBuf
     IN  /\ buf # <<>>
         /\ TooLong(Head(buf))
         /\ jobs' = [jobs EXCEPT
              ![j].outBuf = IF jobs[j].rd = "out" THEN Tail(@) ELSE @,
              ![j].errBuf = IF jobs[j].rd = "err" THEN Tail(@) ELSE @,
              ![j].st = "waiting"]
  /\ UNCHANGED <<flags, setup, sinks, wg, semaphore, pc, exitCode, records, todo>>

\* outputFile.WriteString(line + "\n"); an error is only logged.
JobPersist(j) ==
  /\ Running
  /\ jobs[j].st = "persist"
  /\ file' = IF outputFile = "open" THEN file (+) SetToBag({jobs[j].pend}) ELSE file
  /\ jobs' = [jobs EXCEPT ![j].st = "draining",
                          ![j].kept = IF outputFile = "open" THEN Append(@, jobs[j].pend)
                                      ELSE @]
  /\ UNCHANGED <<flags, setup, outputFile, opens, stdout, wg, semaphore, pc, exitCode,
                 records, todo>>

\* The stdout pipe is empty and closed: the MultiReader moves on to stderr.
JobEOF(j) ==
  /\ Running
  /\ jobs[j].st = "draining"
  /\ jobs[j].rd = "out"
  /\ jobs[j].proc = "exited"
  /\ jobs[j].outBuf = <<>>
  /\ jobs' = [jobs EXCEPT ![j].rd = "err"]
  /\ UNCHANGED <<flags, setup, sinks, wg, semaphore, pc, exitCode, records, todo>>

\* The stderr pipe is empty and closed: scanner.Scan() returns false, and
\* cmd.Wait() returns since the subprocess has exited, with an error when the
\* exit status is not 0.
JobWait(j) ==
  /\ Running
  /\ jobs[j].st = "draining"
  /\ jobs[j].rd = "err"
  /\ jobs[j].proc = "exited"
  /\ jobs[j].errBuf = <<>>
  /\ jobs' = [jobs EXCEPT ![j].st = IF jobs[j].status # 0 THEN AfterError
                                     ELSE "releasing"]
  /\ UNCHANGED <<flags, setup, sinks, wg, semaphore, pc, exitCode, records, todo>>

\* cmd.Wait() after a scan that ended on a line too long: it returns when the
\* subprocess has exited, and drops what the pipes still hold.
JobWaitUnread(j) ==
  /\ Running
  /\ jobs[j].st = "waiting"
  /\ jobs[j].proc = "exited"
  /\ jobs' = [jobs EXCEPT ![j].st = IF jobs[j].status # 0 THEN AfterError
                                     ELSE "releasing"]
  /\ UNCHANGED <<flags, setup, sinks, wg, semaphore, pc, exitCode, records, todo>>

\* A goroutine that returns without receiving from the semaphore.
JobReleaseKeeping(j) ==
  /\ Running
  /\ jobs[j].st = "releasing"
  /\ jobs' = [jobs EXCEPT ![j].st = "released"]
  /\ UNCHANGED <<flags, setup, sinks, wg, semaphore, pc, exitCode, records, todo>>

\* defer func() { <-semaphore }()
JobRelease(j) ==
  /\ Running
  /\ jobs[j].st = "releasing"
  /\ semaphore' = semaphore - 1
  /\ jobs' = [jobs EXCEPT ![j].st = "released"]
  /\ UNCHANGED <<flags, setup, sinks, wg, pc, exitCode, records, todo>>

\* defer wg.Done()
JobDone(j) ==
  /\ Running
  /\ jobs[j].st = "released"
  /\ wg' = wg - 1
  /\ jobs' = [jobs EXCEPT ![j].st = "done"]
  /\ UNCHANGED <<flags, setup, sinks, semaphore, pc, exitCode, records, todo>>

MainStep ==
  Configure \/ ReadStdin \/ Resolve \/ OpenOutput \/ Decode \/ Add \/ Acquire \/ WaitReturn

JobStep(j) ==
  JobBegin(j) \/ JobScan(j) \/ JobScanTooLong(j) \/ JobPersist(j) \/ JobEOF(j)
    \/ JobWait(j) \/ JobWaitUnread(j) \/ JobRelease(j) \/ JobDone(j)

ProcStep(j) == ProcWrite(j) \/ ProcExit(j)

Next ==
  \/ Configure
  \/ ReadStdin
  \/ Resolve
  \/ OpenOutput
  \/ Decode
  \/ Add
  \/ Acquire
  \/ WaitReturn
  \/ \E j \in 1..Len(jobs) : JobBegin(j)
  \/ \E j \in 1..Len(jobs) : ProcWrite(j)
  \/ \E j \in 1..Len(jobs) : ProcExit(j)
  \/ \E j \in 1..Len(jobs) : JobScan(j)
  \/ \E j \in 1..Len(jobs) : JobScanTooLong(j)
  \/ \E j \in 1..Len(jobs) : JobPersist(j)
  \/ \E j \in 1..Len(jobs) : JobEOF(j)
  \/ \E j \in 1..Len(jobs) : JobWait(j)
  \/ \E j \in 1..Len(jobs) : JobWaitUnread(j)
  \/ \E j \in 1..Len(jobs) : JobRelease(j)
  \/ \E j \in 1..Len(jobs) : JobDone(j)

Spec == Init /\ [][Next]_vars

\* The goroutine and the subprocess of the j-th job, once it exists.
JobStepAt(j) == j <= Len(jobs) /\ JobStep(j)
ProcStepAt(j) == j <= Len(jobs) /\ ProcStep(j)

\* The Go scheduler runs every goroutine that can take a step, and the
\* operating system every subprocess that can: Run, and each of the at most
\* two jobs of the output runs.
Fairness ==
  /\ WF_vars(MainStep)
  /\ \A j \in 1..2 : WF_vars(JobStepAt(j)) /\ WF_vars(ProcStepAt(j))

\* The output runs under fair scheduling.
FairSpec == InitIO /\ [][Next]_vars /\ Fairness

(***************************************************************************)
(* Properties.                                                             *)
(***************************************************************************)
Jobs == 1..Len(jobs)

\* The jobs that hold a concurrency slot: dispatched and not yet released.
Holding ==
  {j \in Jobs : jobs[j].st \in {"spawned", "draining", "persist", "waiting", "releasing"}}

\* C1: in both sub-commands the number of jobs that hold a concurrency slot
\* never exceeds the effective parallel limit: --parallel when it is > 0, and
\* 50 when it is <= 0.
C1_SlotsBounded ==
  Cardinality(Holding) <= (IF parallelFlag > 0 THEN parallelFlag ELSE 50)

\* C1: every slot is held, a further job waits for one, under a limit of 2.
C1_Witness ==
  /\ parallelFlag = 2
  /\ Cardinality(Holding) = 2
  /\ pc = "acquire"

\* C2: when the run has exited with code 0, every job counted into the barrier
\* has completed; none is queued, running or draining.
C2_Barrier ==
  (pc = "exited" /\ exitCode = 0) => \A j \in Jobs : jobs[j].st = "done"

\* C2: a run of at least three jobs has exited with code 0.
C2_Witness ==
  /\ pc = "exited" /\ exitCode = 0
  /\ Len(jobs) >= 3
  /\ \A j \in Jobs : jobs[j].st = "done"

\* Job j exists; has recorded its completion; the run ended on an error.
\* C3: under fair scheduling every created job eventually completes unless a
\* decode error ends the run, whatever its subprocess writes to its two pipes
\* before it exits, and the run eventually exits.
Created(j) == j <= Len(jobs)
Completed(j) == j <= Len(jobs) /\ jobs[j].st = "done"
DecodeError == pc = "exited" /\ exitCode = 1

C3_Liveness ==
  /\ <>(pc = "exited")
  /\ \A j \in 1..2 : Created(j) ~> (Completed(j) \/ DecodeError)

\* The tech names of a record that pass the space check (and, in httpx, are
\* not empty), lowercased, in record order.
Normal(t) ==
  /\ \A i \in 1..Len(TechName(t)) : TechName(t)[i] # " "
  /\ sub = "httpx" => Len(TechName(t)) > 0

NormalizedTags(r) ==
  LET kept == SelectSeq(r.tech, Normal)
  IN  [i \in 1..Len(kept) |-> ToLower(TechName(kept[i]))]

\* Whether a normalized tag passes the configured policy.
Passes(tag) ==
  IF includeList # <<>> THEN tag \in Range(includeList)
  ELSE tag \notin Range(excludeList)

SurvivingTags(r) == SelectSeq(NormalizedTags(r), Passes)

\* The jobs of the k-th record, in submission order, and those that reached
\* cmd.Start.
RECURSIVE JobsFrom(_, _)
JobsFrom(k, n) ==
  IF n = 0 THEN <<>>
  ELSE JobsFrom(k, n - 1) \o (IF jobs[n].rec = k THEN <<n>> ELSE <<>>)

JobsOf(k) == JobsFrom(k, Len(jobs))
Launched(k) == {j \in Jobs : jobs[j].rec = k /\ jobs[j].launched}

\* The k-th record has been expanded: every submission it causes was made and
\* every goroutine it got has built its command or skipped.
Expanded(k) ==
  /\ k < Len(records) \/ pc \notin {"submit", "acquire"}
  /\ \A j \in Jobs : jobs[j].rec = k => jobs[j].st \notin {"queued", "spawned"}

\* The tags a job renders into its command, lowercased.
RenderedTags(j) == [i \in 1..Len(jobs[j].techs) |-> ToLower(jobs[j].techs[i])]

RECURSIVE RenderedOf(_)
RenderedOf(js) ==
  IF js = <<>> THEN <<>>
  ELSE (IF jobs[Head(js)].launched THEN RenderedTags(Head(js)) ELSE <<>>)
       \o RenderedOf(Tail(js))

\* C4: a decoded record whose tech is null or absent gets no job: no barrier
\* increment, no slot and no subprocess are ever attributed to it, and the
\* barrier and the slots in use are exactly those of the jobs of other records.
C4_NilRecordNoJob ==
  /\ \A k \in 1..Len(records) :
       records[k].nil =>
         /\ \A j \in Jobs : jobs[j].rec # k
         /\ k = Len(records) => todo = <<>> /\ pc \notin {"submit", "acquire"}
  /\ wg = Cardinality({j \in Jobs : jobs[j].st # "done"})
  /\ semaphore = Cardinality(Holding)

\* C4: a null-tech record was decoded and skipped, and a later record got a job.
C4_Witness ==
  /\ Len(records) = 2
  /\ records[1].nil
  /\ \E j \in Jobs : jobs[j].rec = 2 /\ jobs[j].launched

\* C5: with a non-empty include list every tag a started job renders is in the
\* include list; with an empty include list and a non-empty exclude list no
\* rendered tag is in the exclude list; with both empty the jobs of a record
\* render every normalized tag of the record.
C5_FilterPolicy ==
  /\ \A j \in Jobs : jobs[j].launched =>
       \A i \in 1..Len(jobs[j].techs) :
         /\ includeList # <<>> => RenderedTags(j)[i] \in Range(includeList)
         /\ (includeList = <<>> /\ excludeList # <<>>) =>
              RenderedTags(j)[i] \notin Range(excludeList)
  /\ (includeList = <<>> /\ excludeList = <<>>) =>
       \A k \in 1..Len(records) :
         (~records[k].nil /\ Expanded(k)) =>
           RenderedOf(JobsOf(k)) = NormalizedTags(records[k])

\* C5: under an include list a nuclei job was started for a record of which a
\* tag was filtered out.
C5_Witness ==
  /\ sub = "nuclei"
  /\ includeList # <<>>
  /\ \E j \in Jobs :
       /\ jobs[j].launched
       /\ Len(jobs[j].techs) = 1
       /\ Len(NormalizedTags(records[jobs[j].rec])) = 2

\* C6: with --include-tech and --exclude-tech both non-empty the run ends with
\* exit code 1 before stdin is read, techx spawned, the output file opened or
\* a job created.
C6_ConflictRejected ==
  (includeTech # <<>> /\ excludeTech # <<>>) =>
    /\ ~stdinRead /\ techxRuns = 0 /\ opens = 0 /\ jobs = <<>>
    /\ pc # "start" => (pc = "exited" /\ exitCode = 1)

\* C7: nuclei, a run that ended with exit code 0: every decoded record with a
\* non-null tech of which a tag survives got exactly one job started, every
\* other record none, so the jobs started number the records with survivors.
C7_AggregateJobCount ==
  (sub = "nuclei" /\ pc = "exited" /\ exitCode = 0) =>
    /\ \A k \in 1..Len(records) :
         Cardinality(Launched(k)) =
           IF ~records[k].nil /\ SurvivingTags(records[k]) # <<>> THEN 1 ELSE 0
    /\ Cardinality({j \in Jobs : jobs[j].launched}) =
         Cardinality({k \in 1..Len(records) :
                        ~records[k].nil /\ SurvivingTags(records[k]) # <<>>})

\* C7: a nuclei run ended with exit code 0 after a record with a survivor and a
\* non-null record without one.
C7_Witness ==
  /\ sub = "nuclei" /\ pc = "exited" /\ exitCode = 0
  /\ Len(records) = 2
  /\ \A k \in 1..2 : ~records[k].nil
  /\ SurvivingTags(records[1]) = <<>> /\ records[1].tech # <<>>
  /\ Cardinality(Launched(2)) = 1

\* C8: httpx: an expanded record has one job per surviving tag, in order, each
\* with the host of the record and that one tag; none when no tag survives.
C8_PerTagJobs ==
  sub = "httpx" =>
    /\ \A k \in 1..Len(records) :
         Expanded(k) =>
           LET js == JobsOf(k)
               tags == IF records[k].nil THEN <<>> ELSE SurvivingTags(records[k])
           IN  /\ Len(js) = Len(tags)
               /\ \A i \in 1..Len(js) :
                    /\ jobs[js[i]].launched
                    /\ jobs[js[i]].host = records[k].host
                    /\ jobs[js[i]].techs = <<tags[i]>>
    /\ (pc = "exited" /\ exitCode = 0) =>
         Len(jobs) = Cardinality({<<k, i>> \in (1..Len(records)) \X (1..3) :
                       ~records[k].nil /\ i <= Len(SurvivingTags(records[k]))})

\* C8: an httpx run ended with exit code 0 having started two jobs for a
\* record of three tags, and none for a record whose tags are all filtered.
C8_Witness ==
  /\ sub = "httpx" /\ pc = "exited" /\ exitCode = 0
  /\ Len(records) = 2
  /\ Len(records[1].tech) = 3 /\ Len(JobsOf(1)) = 2
  /\ records[2].tech # <<>> /\ ~records[2].nil /\ JobsOf(2) = <<>>

\* C9 as claimed: the template decides the strategy under both sub-commands:
\* without -path a record gets at most one command, with -path one command per
\* surviving tag.
C9_TemplateSelectsMode ==
  \A k \in 1..Len(records) :
    (~records[k].nil /\ Expanded(k)) =>
      IF Contains(cmdStr, MarkPath)
      THEN Cardinality(Launched(k)) = Len(SurvivingTags(records[k]))
      ELSE Cardinality(Launched(k)) <= 1

\* C9 as amended: the sub-command decides the strategy, whatever the template
\* holds: nuclei starts at most one command per record, which renders all the
\* surviving tags of the record; httpx starts one command per surviving tag,
\* each rendering one tag.
C9_SubcommandSelectsMode ==
  \A k \in 1..Len(records) :
    (~records[k].nil /\ Expanded(k)) =>
      IF sub = "nuclei"
      THEN /\ Cardinality(Launched(k)) <= 1
           /\ \A j \in Launched(k) : Len(jobs[j].techs) = Len(SurvivingTags(records[k]))
      ELSE /\ Cardinality(Launched(k)) = Len(SurvivingTags(records[k]))
           /\ \A j \in Launched(k) : Len(jobs[j].techs) = 1

\* C9: httpx started two commands for one record under a template without
\* -path, and nuclei one command of two tags under a template with -path.
C9_Witness ==
  \E k \in 1..Len(records) :
    /\ Expanded(k)
    /\ \/ /\ sub = "httpx" /\ ~Contains(cmdStr, MarkPath)
          /\ Cardinality(Launched(k)) = 2
       \/ /\ sub = "nuclei" /\ Contains(cmdStr, MarkPath)
          /\ \E j \in Launched(k) : Len(jobs[j].techs) = 2

\* The first three whitespace-delimited tokens of a line each begin with "[".
ThreeBracketTokens(line) ==
  /\ Len(Fields(line)) >= 3
  /\ \A i \in 1..3 : Fields(line)[i][1] = "["

RECURSIVE BagOfLines(_)
BagOfLines(ls) ==
  IF ls = <<>> THEN EmptyBag ELSE SetToBag({Head(ls)}) (+) BagOfLines(Tail(ls))

\* The lines job j has read, and those whose loop iteration is over.
ReadBy(j) == [i \in 1..Len(jobs[j].got) |-> jobs[j].got[i][2]]
HandledBy(j) ==
  IF jobs[j].st = "persist" THEN SubSeq(ReadBy(j), 1, Len(ReadBy(j)) - 1) ELSE ReadBy(j)

RECURSIVE AllRead(_)
AllRead(n) == IF n = 0 THEN <<>> ELSE AllRead(n - 1) \o ReadBy(n)

RECURSIVE AllQualifying(_)
AllQualifying(n) ==
  IF n = 0 THEN <<>>
  ELSE AllQualifying(n - 1) \o SelectSeq(HandledBy(n), ThreeBracketTokens)

\* C10: nuclei: every line in the output file was written by some job and has
\* three leading bracket tokens; with an output file configured the file holds
\* every such line a job has read and handled; every line read was echoed.
C10_AggregatePersistence ==
  sub = "nuclei" =>
    /\ \A l \in BagToSet(file) :
         /\ ThreeBracketTokens(l)
         /\ \E j \in Jobs : \E i \in 1..Len(jobs[j].sent) : jobs[j].sent[i][2] = l
    /\ file = (IF Output # <<>> THEN BagOfLines(AllQualifying(Len(jobs))) ELSE EmptyBag)
    /\ stdout = BagOfLines(AllRead(Len(jobs)))

\* C10: a nuclei job read a line with a leading space and three bracket tokens
\* and a line whose second token is plain: both echoed, the first one filed.
C10_Witness ==
  /\ sub = "nuclei" /\ Output # <<>>
  /\ BagIn(LineQ4, file) /\ BagIn(LineQ4, stdout)
  /\ BagIn(LinePlain, stdout) /\ ~BagIn(LinePlain, file)
  /\ \A j \in Jobs : jobs[j].st = "done"

\* The lines the subprocesses of the first n jobs have written.
SentBy(j) == [i \in 1..Len(jobs[j].sent) |-> jobs[j].sent[i][2]]

RECURSIVE AllSent(_)
AllSent(n) == IF n = 0 THEN <<>> ELSE AllSent(n - 1) \o SentBy(n)

\* C11: httpx, an output file configured, a run that ended with exit code 0:
\* the file holds exactly the lines the subprocesses of all jobs wrote, each
\* once per time it was written, none lost, duplicated, split or merged.
C11_PerTagPersistence ==
  (sub = "httpx" /\ Output # <<>> /\ pc = "exited" /\ exitCode = 0) =>
    file = BagOfLines(AllSent(Len(jobs)))

\* The subprocess of job j could not be started, or exited with a status
\* other than 0 (cmd.Wait() then returns an error).
Failed(j) ==
  /\ j <= Len(jobs)
  /\ jobs[j].proc = "failed" \/ (jobs[j].proc = "exited" /\ jobs[j].status # 0)

ExitedOnDecodeError ==
  /\ pc = "exited" /\ exitCode = 1
  /\ reader # "none"
  /\ Output # <<>> => outputFile = "open"

\* C13: a value of the stream that cannot be decoded takes the run from the
\* decode loop straight to exit code 1, with nothing decoded, submitted,
\* awaited or completed in that step; and once the process has exited no
\* record is decoded, no job submitted and no job advanced.
C13_DecodeErrorAborts ==
  /\ [][(pc = "loop" /\ pc' = "exited") =>
          /\ exitCode' = 1
          /\ UNCHANGED <<records, todo, jobs, wg, semaphore, stdout, file, outputFile>>]_vars
  /\ [][pc = "exited" => UNCHANGED vars]_vars

\* C13: the run ended on a decode error after one record, while the job of
\* that record was still reading its subprocess and the barrier was not at 0.
C13_Witness ==
  /\ ExitedOnDecodeError
  /\ Len(records) = 1
  /\ wg > 0
  /\ \E j \in Jobs : jobs[j].st = "draining" /\ jobs[j].proc = "run"

\* The errors before the decode loop, as the final state shows them.
MissingTemplate == cmdStr = <<>>
FlagConflict == includeTech # <<>> /\ excludeTech # <<>>
StdinError == stdinRead /\ techxRuns = 0 /\ reader = "none"
DetectorError == techxRuns > 0 /\ reader = "none"
OpenError == opens > 0 /\ outputFile = "none"

\* A filter flag names an existing file that cannot be read.
Unreadable(v) == v # <<>> /\ v \in envFiles /\ ~FileAt(v).readable
FilterFileError == Unreadable(excludeTech) \/ Unreadable(includeTech)

\* The run ended with exit code 1 before the decode loop.
ExitedBeforeLoop == pc = "exited" /\ exitCode = 1 /\ ~ExitedOnDecodeError

\* What C14 says of the errors it lists: each ends the run with exit code 1
\* where it is detected, and a run that ended before the loop has no job.
PreRunErrorsFatal ==
  /\ MissingTemplate => (pc = "start" \/ ExitedBeforeLoop) /\ ~stdinRead
  /\ Len(stdinBytes) = 0 =>
       techxRuns = 0 /\ reader = "none" /\ opens = 0 /\ (stdinRead => ExitedBeforeLoop)
  /\ (StdinError \/ DetectorError \/ OpenError) =>
       (ExitedBeforeLoop \/ pc \in {"resolve", "open"})
  /\ StdinError /\ pc = "resolve" => Len(stdinBytes) # 0
  /\ DetectorError => pc # "open"
  /\ OpenError => pc # "resolve"
  /\ ExitedBeforeLoop =>
       records = <<>> /\ jobs = <<>> /\ wg = 0 /\ semaphore = 0

Started(j) == jobs[j].proc \in {"run", "exited"}

\* C15: the subprocess of every job reads on its standard input the host of
\* the record the job was made for; and two records with the same tech list
\* get the same command strings, job by job, whatever their hosts.
C15_HostIsolation ==
  /\ \A j \in Jobs : Started(j) => jobs[j].stdin = records[jobs[j].rec].host
  /\ \A k1, k2 \in 1..Len(records) :
       (~records[k1].nil /\ records[k1].tech = records[k2].tech /\ ~records[k2].nil) =>
         \A n \in 1..Min({Len(JobsOf(k1)), Len(JobsOf(k2))}) :
           LET j1 == JobsOf(k1)[n]
               j2 == JobsOf(k2)[n]
           IN  (jobs[j1].launched /\ jobs[j2].launched) => jobs[j1].cmd = jobs[j2].cmd

\* C15: the subprocesses of two jobs run at the same time for two records
\* that differ in the host only; each has its own host on standard input.
C15_Witness ==
  /\ Len(records) = 2
  /\ records[1].host # records[2].host
  /\ records[1].tech = records[2].tech
  /\ \E i, j \in Jobs :
       /\ jobs[i].rec = 1 /\ jobs[j].rec = 2
       /\ jobs[i].proc = "run" /\ jobs[j].proc = "run"
       /\ jobs[i].stdin = records[1].host /\ jobs[j].stdin = records[2].host
       /\ jobs[i].cmd = jobs[j].cmd

\* One clause of the expression filter: contains(to_lower(name),'<tag>').
Clause(tag) ==
  <<"c", "o", "n", "t", "a", "i", "n", "s", "(">>
  \o <<"t", "o", "_", "l", "o", "w", "e", "r", "(", "n", "a", "m", "e", ")">>
  \o <<",", "'">> \o tag \o <<"'", ")">>

\* The text that replaces the placeholder in aggregate mode.
AggregateValue(tags) ==
  IF Contains(cmdStr, MarkTc)
  THEN <<"\"">> \o Join([i \in 1..Len(tags) |-> Clause(tags[i])], <<" ", "|", "|", " ">>)
       \o <<"\"">>
  ELSE Join(tags, <<",">>)

\* C16: nuclei: the command of a started job is the template with {tech}
\* replaced by the lowercased surviving tags of the record joined with commas
\* in record order, or, when the template holds -tc, by the double-quoted
\* clauses contains(to_lower(name),'<tag>') of these tags joined with " || ".
C16_AggregateRendering ==
  sub = "nuclei" =>
    \A j \in Jobs : jobs[j].launched =>
      jobs[j].cmd =
        ReplaceAll(cmdStr, Placeholder, AggregateValue(SurvivingTags(records[jobs[j].rec])))

\* C16: a nuclei job was started under the -tc template for the record with
\* the tags "Ab:1" and "b".
C16_Witness ==
  /\ sub = "nuclei" /\ cmdStr = TplTc
  /\ \E j \in Jobs :
       /\ jobs[j].launched
       /\ records[jobs[j].rec].tech = <<TagAbV, TagB>>
       /\ jobs[j].cmd = MarkTc \o <<" ", "\"">> \o Clause(<<"a", "b">>)
                        \o <<" ", "|", "|", " ">> \o Clause(<<"b">>) \o <<"\"">>

\* The substitution value by strict priority: the tag, the wordlist directory
\* joined with the tag, that path with .txt appended, the raw tag.
ByPriority(tag) ==
  LET inDir == wordlistsDir \o <<"/">> \o tag
  IN  IF tag \in envFiles THEN tag
      ELSE IF inDir \in envFiles THEN inDir
      ELSE IF (inDir \o DotTxt) \in envFiles THEN inDir \o DotTxt
      ELSE tag

\* The same, where .txt is appended only to a tag that does not end in .txt.
ByPriorityOnce(tag) ==
  LET inDir == wordlistsDir \o <<"/">> \o tag
  IN  IF tag \in envFiles THEN tag
      ELSE IF inDir \in envFiles THEN inDir
      ELSE IF ~HasSuffix(tag, DotTxt) /\ (inDir \o DotTxt) \in envFiles THEN inDir \o DotTxt
      ELSE tag

\* The n-th job of the k-th record is started with the n-th surviving tag.
PathJobs ==
  {<<k, n>> \in (1..Len(records)) \X (1..3) :
     /\ ~records[k].nil
     /\ n <= Len(JobsOf(k))
     /\ n <= Len(SurvivingTags(records[k]))
     /\ jobs[JobsOf(k)[n]].launched}

NameOf(raw) ==
  LET colons == {i \in 1..Len(raw) : raw[i] = ":"}
      left == IF colons = {} THEN raw ELSE SubSeq(raw, 1, Min(colons) - 1)
  IN  ToLower(TrimSpace(left))

NamesOf(r) == [i \in 1..Len(r.tech) |-> NameOf(r.tech[i])]

\* A name the sub-command goes on with: it passes the configured policy and,
\* in httpx, is not empty.
Wanted(name) == Passes(name) /\ (sub = "httpx" => name # <<>>)

HasWhitespace(name) == \E i \in 1..Len(name) : IsSpace(name[i])
HasBlank(name) == \E i \in 1..Len(name) : name[i] = " "

NoWhitespaceWanted(name) == ~HasWhitespace(name) /\ Wanted(name)
NoBlankWanted(name) == ~HasBlank(name) /\ Wanted(name)

\* C18 as claimed: the tags the jobs of an expanded record render are the
\* names of its raw tags (left of the first ":", trimmed, lowercased) that
\* hold no whitespace and pass the filter, in record order.
C18_Normalization ==
  \A k \in 1..Len(records) :
    (~records[k].nil /\ Expanded(k)) =>
      RenderedOf(JobsOf(k)) = SelectSeq(NamesOf(records[k]), NoWhitespaceWanted)

\* C18 as amended: the same, where a name is discarded when it holds a space
\* character; a name that holds a tab or other whitespace is kept.
C18_NormalizationBlank ==
  \A k \in 1..Len(records) :
    (~records[k].nil /\ Expanded(k)) =>
      RenderedOf(JobsOf(k)) = SelectSeq(NamesOf(records[k]), NoBlankWanted)

\* C18: a job was started that renders the name "a<TAB>b", for a record whose
\* other tag " C " is rendered as "c".
C18_Witness ==
  \E k \in 1..Len(records) :
    /\ Expanded(k)
    /\ records[k].tech = <<TagTabbed, TagC>>
    /\ RenderedOf(JobsOf(k)) = <<TagTabbed, <<"c">>>>

\* The effective parallel limit, and the jobs that wait for a slot.
Limit == IF parallelFlag > 0 THEN parallelFlag ELSE 50
Queued == {j \in Jobs : jobs[j].st = "queued"}

\* C19 as claimed: the jobs counted into the barrier and not yet completed
\* number at most the effective parallel limit + 1, and while a job waits for
\* a slot Run is at the send on the semaphore, not at the decoder.
C19_BarrierBounded ==
  /\ wg <= Limit + 1
  /\ Queued # {} => pc = "acquire"

\* C19 as amended: the jobs that hold a slot or wait for one number at most
\* the limit + 1, at most one of them waits, and no record is decoded while
\* a job waits; the jobs that have released their slot and not yet called
\* wg.Done() are counted into the barrier on top of these.
C19_Backpressure ==
  /\ [](/\ Cardinality(Holding \cup Queued) <= Limit + 1
        /\ Cardinality(Queued) <= 1
        /\ Queued # {} => pc = "acquire"
        /\ wg = Cardinality(Holding \cup Queued)
                  + Cardinality({j \in Jobs : jobs[j].st = "released"}))
  /\ [][records' # records => Queued = {}]_vars

\* C19: under a limit of 1 one job holds the slot, one waits for it, and a
\* third has released its slot without having called wg.Done(): the barrier
\* counts 3.
C19_Witness ==
  /\ parallelFlag = 1
  /\ Cardinality(Holding) = 1 /\ Cardinality(Queued) = 1
  /\ wg = 3

\* The first character of stdin that is not whitespace is "[" or "{".
LooksStructured ==
  LET solid == {i \in 1..Len(stdinBytes) : ~IsSpace(stdinBytes[i])}
  IN  solid # {} /\ stdinBytes[Min(solid)] \in {"[", "{"}

\* Run has resolved the record source.
SourceResolved == pc \notin {"start", "read", "resolve"} /\ (reader # "none" \/ techxRuns > 0)

\* C20: techx is spawned at most once, and only for a non-empty stdin that
\* does not look structured; once the source is resolved techx was spawned
\* exactly when stdin does not look structured, and the decoder reads stdin
\* itself exactly when it does.
C20_SourceResolution ==
  /\ techxRuns <= 1
  /\ techxRuns = 1 => Len(stdinBytes) > 0 /\ ~LooksStructured
  /\ reader = "stdin" => LooksStructured /\ techxRuns = 0
  /\ reader = "techx" => techxRuns = 1
  /\ SourceResolved => (techxRuns = 1 <=> ~LooksStructured)
  /\ pc \in {"open", "loop", "submit", "acquire", "wait"} =>
       reader = (IF LooksStructured THEN "stdin" ELSE "techx")

\* C20: stdin holds whitespace only; techx was spawned once and the decoder
\* reads what it printed.
C20_Witness ==
  /\ stdinBytes = StdinBlank
  /\ techxRuns = 1 /\ reader = "techx"
  /\ pc = "loop"

\* The segments of a list that are not empty.
Meaningful(list) ==
  LET NonEmpty(t) == t # <<>>
  IN  SelectSeq(list, NonEmpty)

\* Whether a normalized tag passes the policy of the two given lists.
PassesUnder(tag, inc, exc) ==
  IF inc # <<>> THEN tag \in Range(inc) ELSE tag \notin Range(exc)

\* The literal is split on ",", and each segment trimmed and lowercased.
IsLiteral(v) == v # <<>> /\ v \notin envFiles
SegmentsOf(v) ==
  LET cuts == <<0>> \o SelectSeq([i \in 1..Len(v) |-> IF v[i] = "," THEN i ELSE 0],
                                 LAMBDA i : i # 0) \o <<Len(v) + 1>>
  IN  [k \in 1..(Len(cuts) - 1) |->
         ToLower(TrimSpace(SubSeq(v, cuts[k] + 1, cuts[k + 1] - 1)))]

\* Run has loaded the two lists.
ListsLoaded == pc \notin {"start", "exited"}

\* C21: once the lists are loaded, an empty specification gave the empty list
\* and a comma-separated literal its trimmed, lowercased segments; the empty
\* segments are harmless: a list is active exactly when it has a non-empty
\* segment, and every tag of a decoded record passes the filter exactly when
\* it passes the filter of the lists without their empty segments.
C21_EmptySegmentsHarmless ==
  ListsLoaded =>
    /\ excludeTech = <<>> => excludeList = <<>>
    /\ includeTech = <<>> => includeList = <<>>
    /\ IsLiteral(excludeTech) => excludeList = SegmentsOf(excludeTech)
    /\ IsLiteral(includeTech) => includeList = SegmentsOf(includeTech)
    /\ (includeList # <<>>) <=> (Meaningful(includeList) # <<>>)
    /\ (excludeList # <<>>) <=> (Meaningful(excludeList) # <<>>)
    /\ \A k \in 1..Len(records) :
         \A i \in 1..Len(NormalizedTags(records[k])) :
           Passes(NormalizedTags(records[k])[i]) <=>
             PassesUnder(NormalizedTags(records[k])[i],
                         Meaningful(includeList), Meaningful(excludeList))

\* The lines of a sequence of <<stream, line>> pairs that are of one stream.
OnStream(pairs, s) ==
  LET Of(p) == p[1] = s
      sel == SelectSeq(pairs, Of)
  IN  [i \in 1..Len(sel) |-> sel[i][2]]

IsPrefix(a, b) == Len(a) <= Len(b) /\ a = SubSeq(b, 1, Len(a))

\* The lines a job has read that go to the output file, in the order read.
DueOf(j) ==
  LET lines == [i \in 1..Len(jobs[j].got) |-> jobs[j].got[i][2]]
  IN  SelectSeq(lines, Persisted)

\* C22: in every job the lines read and echoed from the stdout of the
\* subprocess are, in order, the first lines it wrote to stdout, and likewise
\* for stderr; the lines the job has appended to the output file are, in the
\* order read, the lines read that go to the file, up to the one in hand.
C22_PerStreamOrder ==
  \A j \in Jobs :
    /\ \A s \in {"out", "err"} :
         IsPrefix(OnStream(jobs[j].got, s), OnStream(jobs[j].sent, s))
    /\ jobs[j].kept = IF jobs[j].st = "persist"
                      THEN SubSeq(DueOf(j), 1, Len(DueOf(j)) - 1)
                      ELSE DueOf(j)

\* C22: a subprocess wrote two different lines to stdout, the second while the
\* pipe still held the first, and the job has read and appended both.
C22_Witness ==
  \E j \in Jobs :
    /\ envCap > 1
    /\ Len(OnStream(jobs[j].sent, "out")) = 2
    /\ jobs[j].sent[1][2] # jobs[j].sent[2][2]
    /\ Len(jobs[j].got) = 2
    /\ Len(jobs[j].kept) = 2

\* The jobs that were given to a goroutine and have not recorded their
\* completion; the states of a job that holds a slot.
Unfinished == {j \in Jobs : jobs[j].st \notin {"queued", "done"}}
HoldingStates == {"spawned", "draining", "persist", "waiting", "releasing"}

\* What a step does to the slots: a job gives up its slot only by the
\* release, which frees one slot; it never holds a slot again afterwards; it
\* records its completion only after the release; and a slot is freed only by
\* the release of a job that holds one.
SlotSteps ==
  /\ \A j \in Jobs :
       /\ (jobs[j].st \in HoldingStates /\ jobs'[j].st \notin HoldingStates) =>
            (jobs'[j].st = "released" /\ semaphore' = semaphore - 1)
       /\ jobs[j].st \in {"released", "done"} => jobs'[j].st \in {"released", "done"}
       /\ (jobs'[j].st = "done" /\ jobs[j].st # "done") => jobs[j].st = "released"
  /\ semaphore' < semaphore =>
       \E j \in Jobs : jobs[j].st = "releasing" /\ jobs'[j].st = "released"
  /\ semaphore' > semaphore =>
       /\ semaphore' = semaphore + 1
       /\ jobs[Len(jobs)].st = "queued" /\ jobs'[Len(jobs)].st = "spawned"

\* C23 as stated: the slots held always number the jobs dispatched and not yet
\* recorded as completed.
C23_HeldEqualsUnfinished == semaphore = Cardinality(Unfinished)

\* C23: a slot is acquired for one job and released once, by that job, on each
\* of its ways out and before it records its completion; the slots held always
\* number the jobs dispatched and not yet released, which are the unfinished
\* jobs but those between their release and their completion; all slots are
\* free when the barrier wait has returned.
C23_SlotAccounting ==
  /\ [][SlotSteps]_vars
  /\ [](/\ semaphore = Cardinality(Holding)
        /\ Holding \subseteq Unfinished
        /\ Unfinished \ Holding = {j \in Jobs : jobs[j].st = "released"}
        /\ (pc = "exited" /\ exitCode = 0) => semaphore = 0)

\* C23: a nuclei run has returned from the barrier wait with all slots free
\* after a job that skipped its record and a job whose subprocess did not
\* start.
C23_Witness ==
  /\ pc = "exited" /\ exitCode = 0 /\ semaphore = 0
  /\ Len(jobs) = 2
  /\ ~jobs[1].launched /\ jobs[1].st = "done"
  /\ jobs[2].proc = "failed" /\ jobs[2].st = "done"

\* What a step does to the output file: it is opened with no job submitted
\* and not opened before; a line is appended only while the handle is open;
\* the handle is closed only by Run returning from the barrier wait, and stays
\* closed.
HandleSteps ==
  /\ opens' # opens => (opens = 0 /\ opens' = 1 /\ jobs = <<>> /\ outputFile = "none")
  /\ file' # file => (outputFile = "open" /\ outputFile' = "open")
  /\ (outputFile' = "closed" /\ outputFile # "closed") =>
       (outputFile = "open" /\ pc = "wait" /\ wg = 0 /\ pc' = "exited")
  /\ outputFile = "closed" => outputFile' = "closed"

\* C24: the output file is opened at most once, and when --output is given it
\* was opened before the first job was submitted; it is closed only when Run
\* has returned with every job completed; a job appends a line only while the
\* handle is open, never before the open or after the close.
C24_HandleLifetime ==
  /\ [][HandleSteps]_vars
  /\ [](/\ opens <= 1
        /\ outputFile # "none" => opens = 1
        /\ jobs # <<>> => (opens = 1 <=> Output # <<>>)
        /\ outputFile = "closed" =>
             (pc = "exited" /\ exitCode = 0 /\ \A j \in Jobs : jobs[j].st = "done")
        /\ \A j \in Jobs : jobs[j].st = "persist" => outputFile = "open"
        /\ file # EmptyBag => outputFile # "none")

\* C24: a run with an output file has returned after two jobs that each
\* appended a line; the file was opened once and is closed.
C24_Witness ==
  /\ pc = "exited" /\ exitCode = 0
  /\ opens = 1 /\ outputFile = "closed"
  /\ Len(jobs) = 2
  /\ \A j \in Jobs : jobs[j].kept # <<>>

\* The surviving tags of a record as each engine computes them, lowercased.
NucleiSurvivors(r) ==
  LET techs == NucleiTechs(r.tech, includeList, excludeList)
  IN  [i \in 1..Len(techs) |-> ToLower(techs[i])]

HttpxSurvivors(r) == HttpxTechs(r.tech, includeList, excludeList)

\* C25: for every decoded record with a non-null tech the two engines compute
\* the same sequence of surviving tags under the lists of the run, and once
\* the record is expanded the tags this run has rendered for it (nuclei: into
\* the one command; httpx: one job each) are that sequence.
C25_EngineEquivalence ==
  \A k \in 1..Len(records) :
    ~records[k].nil =>
      /\ NucleiSurvivors(records[k]) = HttpxSurvivors(records[k])
      /\ Expanded(k) =>
           RenderedOf(JobsOf(k)) =
             (IF sub = "nuclei" THEN HttpxSurvivors(records[k])
              ELSE NucleiSurvivors(records[k]))

====
